---- MODULE Spec2Model ----
(***************************************************************************)
(* adjust_brightness.py: the ambient-light control loop.                   *)
(*                                                                         *)
(* The process reads the light sensor file, maps the lux reading to a      *)
(* target brightness percentage, moves the display one percentage point    *)
(* toward the target through brightnessctl, sleeps, and repeats.           *)
(*                                                                         *)
(* Environment (not part of adjust_brightness.py):                         *)
(*   - the sensor file, whose state changes at any time (SensorChange);    *)
(*   - the backlight device behind brightnessctl, which holds a raw level  *)
(*     rawCurrent in 0..rawMax.  The devices modelled have a maximum that  *)
(*     is a multiple of 100, so that "brightnessctl s p%" has an exact     *)
(*     raw level for every whole percentage p whatever rounding the tool   *)
(*     applies; a maximum of 0 models the broken device.                   *)
(***************************************************************************)
EXTENDS Integers, Sequences, FiniteSets, TLC

VARIABLES
    max_lux,            \* args.max_lux
    min_lux,            \* args.min_lux (used as the brightness floor)
    max_width,          \* args.max_width
    sensor,             \* state of the sensor file: [kind, val]
    rawCurrent,         \* device: what "brightnessctl g" prints
    rawMax,             \* device: what "brightnessctl m" prints
    pc,                 \* position of main(): sense, step_get, step_set, sleep, exited
    lux,                \* main's local lux
    target_brightness,  \* main's local target_brightness
    tryResult,          \* how the try block of the current iteration ended
    current_brightness, \* adjust_brightness_step's local current_brightness
    adjusted,           \* main's local adjusted
    sleep_duration,     \* which duration the pending time.sleep was given
    warnings,           \* warning lines logged by the current iteration
    cmds,               \* brightnessctl commands issued by the current iteration
    display,            \* messages update_display built in the current iteration
    rawAtSense,         \* history: the device's raw level when the iteration began
    exc,                \* the exception that ended the process, if any
    startBrightness,    \* history: brightness percentage when the process started
    calls,              \* history: calls of adjust_brightness_step that returned True
    movedBy,            \* history: by how many points the iteration's set command moved the device
    extWrites,          \* history: writes of the device by an external actor
    disturbed           \* history: an external actor wrote the device while the loop was settled

prog == <<max_lux, min_lux, max_width, sensor, rawCurrent, rawMax, pc, lux,
          target_brightness, tryResult, current_brightness, adjusted, sleep_duration,
          warnings, cmds, display, rawAtSense, exc>>
hist == <<startBrightness, calls, movedBy, extWrites, disturbed>>
vars == <<prog, hist>>

----------------------------------------------------------------------------
(* Bounds of the model *)

\* The history counter calls saturates here (it grows without limit when the
\* target cannot be reached).
MaxCalls == 101

\* An external actor writes the device at most this many times.
MaxExternalWrites == 2

\* The raw levels an external actor (a hotkey) sets: off, and 60%.
ExternalLevels == { 0, 120 }

\* The (max_lux, min_lux) pairs given on the command line: the defaults, a
\* floor above 100, a negative floor, a zero and a negative max-lux.
Configs == { <<300, 1>>, <<300, 0>>, <<300, 150>>, <<300, -5>>, <<0, 1>>, <<-100, 1>> }

\* The --max-width values given on the command line: the default, a width
\* that does not divide evenly, and a negative one.
Widths == { 25, 8, -5 }

\* Integers the sensor file can hold.
LuxReadings == { -150, 0, 150, 200, 300, 400 }

\* Devices: the maximum raw level, and the raw levels the device starts at.
RawMaxValues == { 0, 200 }
InitRaw(m) == IF m = 0 THEN { 0 } ELSE { 0, 1, 20, 41, 60, 81, 100, 120, 141, 163, 180, 199, 200 }

----------------------------------------------------------------------------
(* Helpers *)

Max(a, b) == IF a >= b THEN a ELSE b
Min(a, b) == IF a <= b THEN a ELSE b
Abs(a) == IF a >= 0 THEN a ELSE -a

\* Python's a // b for b # 0: the floor of the quotient, for either sign of b.
FloorDiv(a, b) == IF b > 0 THEN a \div b ELSE (-a) \div (-b)

IntReading(v) == [kind |-> "int", val |-> v]
Failing(k) == [kind |-> k, val |-> 0]
SensorStates == { IntReading(v) : v \in LuxReadings }
                \cup { Failing(k) : k \in {"missing", "denied", "garbage"} }

\* The exception open()/int() raise in read_ambient_light for a sensor state.
ReadException(s) ==
    CASE s.kind = "missing" -> "FileNotFoundError"
      [] s.kind = "denied"  -> "PermissionError"
      [] s.kind = "garbage" -> "ValueError"
      [] OTHER              -> "none"

\* except (FileNotFoundError, ValueError): the exceptions read_ambient_light
\* logs a warning for before re-raising.
LogsWarning(e) == e \in {"FileNotFoundError", "ValueError"}

MainCatchesNarrow(e) == e \in {"FileNotFoundError", "ValueError"}
\* except Exception in main(): every exception the try block can raise.
MainCatches(e) == e \in {"FileNotFoundError", "PermissionError", "ValueError",
                         "ZeroDivisionError"}

----------------------------------------------------------------------------
(* calculate_target_brightness *)

calcNoFloor(l, mx, mn) == IF l >= mx THEN 100 ELSE FloorDiv(l * 100, mx)
calcFloorOverCap(l, mx, mn) ==
    Max(mn, IF l >= mx THEN 100 ELSE FloorDiv(l * 100, mx))
calcRoundUp(l, mx, mn) ==
    IF l >= mx THEN 100 ELSE Max(mn, FloorDiv(l * 100 + mx - 1, mx))
calculate_target_brightness(l, mx, mn) ==
    IF l >= mx THEN 100 ELSE Max(mn, FloorDiv(l * 100, mx))

\* (lux * 100) // max_lux raises ZeroDivisionError when it is evaluated with max_lux = 0.
CalcRaises(l, mx) == l < mx /\ mx = 0

----------------------------------------------------------------------------
(* The device, through brightnessctl *)

get_brightnessRoundUp(cur, mx) == FloorDiv(cur * 100 + mx - 1, mx)
\* get_brightness: (current_brightness * 100) // max_brightness
get_brightness(cur, mx) == FloorDiv(cur * 100, mx)

\* "brightnessctl s p%": the raw level for p percent; above 100% the device
\* stays at its maximum, and a negative percentage is rejected by the tool.
DeviceAfterSet(p, cur, mx) ==
    IF p < 0 THEN cur
    ELSE IF p > 100 THEN mx
    ELSE (p * mx) \div 100

\* What the two query commands print: two integers, or text int() rejects.
QueryOutputs == {"ok", "empty", "garbage"}

Cmd(c, a) == [cmd |-> c, arg |-> a]
SetCmds(s) == { i \in 1..Len(s) : s[i].cmd = "s" }
QueryCmds(s) == { i \in 1..Len(s) : s[i].cmd \in {"g", "m"} }

----------------------------------------------------------------------------
(* update_display *)

\* Python's ch * n: n copies of ch, none when n <= 0.
Repeat(ch, n) == [i \in 1..Max(n, 0) |-> ch]

NumHashesRounded(level, width) == FloorDiv(level * width + 50, 100)
\* num_hashes = (brightness_level * max_width) // 100
NumHashes(level, width) == FloorDiv(level * width, 100)

\* bar = '#' * num_hashes + ' ' * (max_width - num_hashes), inside the brackets
Bar(level, width) ==
    Repeat("#", NumHashes(level, width)) \o Repeat(" ", width - NumHashes(level, width))

\* The message update_display builds (the timestamp left out).
update_display(level, tgt, lx, width) ==
    [brightness |-> level, target |-> tgt, lux |-> lx, bar |-> Bar(level, width)]

----------------------------------------------------------------------------
(* adjust_brightness_step's decisions *)

AtTargetNever(cur, tgt) == FALSE
\* if current_brightness == target_brightness
AtTarget(cur, tgt) == cur = tgt

StepAway(cur, tgt) == IF tgt > cur THEN -1 ELSE 1
StepDouble(cur, tgt) == IF tgt > cur THEN 2 ELSE -2
\* step = 1 if target_brightness > current_brightness else -1
StepToward(cur, tgt) == IF tgt > cur THEN 1 ELSE -1

SleepChoiceSwapped(adj) == IF adj THEN "long" ELSE "short"
\* sleep_duration = args.short_sleep if adjusted else args.long_sleep
SleepChoice(adj) == IF adj THEN "short" ELSE "long"

----------------------------------------------------------------------------
(* Initial state: main() has parsed its arguments and is about to enter the loop *)

InitProg ==
    /\ \E c \in Configs : max_lux = c[1] /\ min_lux = c[2]
    /\ max_width \in Widths
    /\ sensor \in SensorStates
    /\ rawMax \in RawMaxValues
    /\ rawCurrent \in InitRaw(rawMax)
    /\ pc = "sense"
    /\ lux = 0
    /\ target_brightness = 0
    /\ tryResult = "none"
    /\ current_brightness = 0
    /\ adjusted = FALSE
    /\ sleep_duration = "none"
    /\ warnings = 0
    /\ cmds = <<>>
    /\ display = <<>>
    /\ rawAtSense = rawCurrent
    /\ exc = "none"

\* No external actor has written the device.
InitExternal ==
    /\ movedBy = 0
    /\ extWrites = 0
    /\ disturbed = FALSE

Init ==
    /\ InitProg
    /\ startBrightness = 0
    /\ calls = 0
    /\ InitExternal

----------------------------------------------------------------------------
(* Environment *)

\* Something else rewrites the sensor file (the light changes, the driver
\* goes away or comes back).
SensorChange ==
    /\ pc # "exited"
    /\ \E s \in SensorStates \ {sensor} : sensor' = s
    /\ UNCHANGED <<max_lux, min_lux, max_width, rawCurrent, rawMax, pc, lux, target_brightness,
                   tryResult, current_brightness, adjusted, sleep_duration,
                   warnings, cmds, display, rawAtSense, exc>>

----------------------------------------------------------------------------
(* main(): the try block, lines 231-237 *)

\* An exception raised inside the try block: caught by "except Exception",
\* which sleeps the long duration and continues; otherwise it ends the process.
Raised(e) ==
    IF MainCatches(e)
    THEN /\ pc' = "sleep"
         /\ sleep_duration' = "long"
         /\ exc' = exc
    ELSE /\ pc' = "exited"
         /\ sleep_duration' = sleep_duration
         /\ exc' = e

\* read_ambient_light raises: the file cannot be opened or parsed.
SenseReadFails ==
    /\ pc = "sense"
    /\ sensor.kind # "int"
    /\ warnings' = (IF LogsWarning(ReadException(sensor)) THEN 1 ELSE 0)
    /\ tryResult' = "read_failed"
    /\ cmds' = <<>>
    /\ display' = <<>>
    /\ rawAtSense' = rawCurrent
    /\ Raised(ReadException(sensor))
    /\ UNCHANGED <<max_lux, min_lux, max_width, sensor, rawCurrent, rawMax, lux,
                   target_brightness, current_brightness, adjusted>>

\* read_ambient_light returns, calculate_target_brightness divides by zero.
SenseCalcFails ==
    /\ pc = "sense"
    /\ sensor.kind = "int"
    /\ CalcRaises(sensor.val, max_lux)
    /\ lux' = sensor.val
    /\ warnings' = 0
    /\ tryResult' = "calc_failed"
    /\ cmds' = <<>>
    /\ display' = <<>>
    /\ rawAtSense' = rawCurrent
    /\ Raised("ZeroDivisionError")
    /\ UNCHANGED <<max_lux, min_lux, max_width, sensor, rawCurrent, rawMax,
                   target_brightness, current_brightness, adjusted>>

\* The try block completes: lux and target_brightness are assigned.
SenseOk ==
    /\ pc = "sense"
    /\ sensor.kind = "int"
    /\ ~CalcRaises(sensor.val, max_lux)
    /\ lux' = sensor.val
    /\ target_brightness' = calculate_target_brightness(sensor.val, max_lux, min_lux)
    /\ warnings' = 0
    /\ tryResult' = "ok"
    /\ cmds' = <<>>
    /\ display' = <<>>
    /\ rawAtSense' = rawCurrent
    /\ pc' = "step_get"
    /\ UNCHANGED <<max_lux, min_lux, max_width, sensor, rawCurrent, rawMax,
                   current_brightness, adjusted, sleep_duration, exc>>

----------------------------------------------------------------------------
(* adjust_brightness_step, lines 172-182, and main's lines 240-242 *)

\* get_brightness raises (int() of the output, or the division): nothing
\* around the call in main() catches it.
StepGetFails(out) ==
    /\ pc = "step_get"
    /\ out # "ok" \/ rawMax = 0
    /\ cmds' = (IF out = "ok" THEN cmds \o <<Cmd("g", 0), Cmd("m", 0)>>
                ELSE cmds \o <<Cmd("g", 0)>>)
    /\ exc' = (IF out = "ok" THEN "ZeroDivisionError" ELSE "ValueError")
    /\ pc' = "exited"
    /\ UNCHANGED <<max_lux, min_lux, max_width, sensor, rawCurrent, rawMax, lux, target_brightness,
                   tryResult, current_brightness, adjusted, sleep_duration, warnings,
                   display, rawAtSense>>

\* get_brightness returns; already at target: return False, choose the sleep.
StepGetAtTarget ==
    /\ pc = "step_get"
    /\ rawMax # 0
    /\ AtTarget(get_brightness(rawCurrent, rawMax), target_brightness)
    /\ current_brightness' = get_brightness(rawCurrent, rawMax)
    /\ cmds' = cmds \o <<Cmd("g", 0), Cmd("m", 0)>>
    /\ adjusted' = FALSE
    /\ sleep_duration' = SleepChoice(FALSE)
    /\ pc' = "sleep"
    /\ UNCHANGED <<max_lux, min_lux, max_width, sensor, rawCurrent, rawMax, lux, target_brightness,
                   tryResult, warnings, display, rawAtSense, exc>>

\* get_brightness returns; not at target: go on to the adjustment.
StepGetOffTarget ==
    /\ pc = "step_get"
    /\ rawMax # 0
    /\ ~AtTarget(get_brightness(rawCurrent, rawMax), target_brightness)
    /\ current_brightness' = get_brightness(rawCurrent, rawMax)
    /\ cmds' = cmds \o <<Cmd("g", 0), Cmd("m", 0)>>
    /\ pc' = "step_set"
    /\ UNCHANGED <<max_lux, min_lux, max_width, sensor, rawCurrent, rawMax, lux, target_brightness,
                   tryResult, adjusted, sleep_duration, warnings, display,
                   rawAtSense, exc>>

\* current_brightness += step; set_brightness; update_display; return True.
StepSet ==
    /\ pc = "step_set"
    /\ LET new == current_brightness + StepToward(current_brightness, target_brightness)
       IN  /\ current_brightness' = new
           /\ rawCurrent' = DeviceAfterSet(new, rawCurrent, rawMax)
           /\ cmds' = Append(cmds, Cmd("s", new))
           /\ display' = Append(display, update_display(new, target_brightness, lux, max_width))
    /\ adjusted' = TRUE
    /\ sleep_duration' = SleepChoice(TRUE)
    /\ pc' = "sleep"
    /\ UNCHANGED <<max_lux, min_lux, max_width, sensor, rawMax, lux, target_brightness,
                   tryResult, warnings, rawAtSense, exc>>

\* time.sleep returns: back to the top of the loop.
Sleeping ==
    /\ pc = "sleep"
    /\ pc' = "sense"
    /\ UNCHANGED <<max_lux, min_lux, max_width, sensor, rawCurrent, rawMax, lux, target_brightness,
                   tryResult, current_brightness, adjusted, sleep_duration,
                   warnings, cmds, display, rawAtSense, exc>>

----------------------------------------------------------------------------
(* The program with its whole environment *)

Next ==
    \/ SensorChange /\ UNCHANGED hist
    \/ SenseReadFails /\ UNCHANGED hist
    \/ SenseCalcFails /\ UNCHANGED hist
    \/ SenseOk /\ UNCHANGED hist
    \/ (\E out \in QueryOutputs : StepGetFails(out)) /\ UNCHANGED hist
    \/ StepGetAtTarget /\ UNCHANGED hist
    \/ StepGetOffTarget /\ UNCHANGED hist
    \/ StepSet /\ UNCHANGED hist
    \/ Sleeping /\ UNCHANGED hist

Spec == Init /\ [][Next]_vars

----------------------------------------------------------------------------
(* The program with a steady sensor and a working device: the sensor file  *)
(* keeps one integer, brightnessctl answers every query, and the history   *)
(* variables count the adjustments made since the start.                   *)

SteadyInit ==
    /\ InitProg
    /\ sensor.kind = "int"
    /\ rawMax # 0
    /\ startBrightness = get_brightness(rawCurrent, rawMax)
    /\ calls = 0
    /\ InitExternal

SteadyNext ==
    \/ SenseCalcFails /\ UNCHANGED hist
    \/ SenseOk /\ UNCHANGED hist
    \/ StepGetAtTarget /\ UNCHANGED hist
    \/ StepGetOffTarget /\ UNCHANGED hist
    \/ StepSet /\ calls' = Min(calls + 1, MaxCalls) /\ UNCHANGED <<startBrightness, movedBy, extWrites, disturbed>>
    \/ Sleeping /\ UNCHANGED hist

\* The process is sequential and every statement of the loop terminates
\* (time.sleep returns), so the loop always takes its next step.
SteadySpec == SteadyInit /\ [][SteadyNext]_vars /\ WF_vars(SteadyNext)

----------------------------------------------------------------------------
(* Properties *)

\* The brightness percentage a query of the device would report now.
DevicePct == get_brightness(rawCurrent, rawMax)

LastCmd == cmds[Len(cmds)]

C2_ExactConvergence ==
    (tryResult = "ok" /\ target_brightness \in 0..100) =>
        LET dist == Abs(target_brightness - startBrightness)
            dir  == IF target_brightness > startBrightness THEN 1 ELSE -1
        IN  /\ calls <= dist
            /\ DevicePct = startBrightness + dir * calls
            /\ (pc = "sleep" /\ ~adjusted) =>
                   /\ calls = dist
                   /\ DevicePct = target_brightness
                   /\ SetCmds(cmds) = {}
            /\ (pc = "sleep" /\ adjusted) => Cardinality(SetCmds(cmds)) = 1

\* C2 witness: started at 20% with target 50%, the call after the 30th
\* adjustment has returned False.
C2_Witness ==
    /\ pc = "sleep" /\ ~adjusted /\ tryResult = "ok"
    /\ startBrightness = 20
    /\ target_brightness = 50
    /\ calls = 30
    /\ SetCmds(cmds) = {}

\* C3: every adjustment sets exactly the value read by get_brightness plus 1
\* when the target is above it, minus 1 when the target is below it, which is
\* one point closer to the target.
C3_OneStepTowardTarget ==
    [][ (pc = "step_set" /\ pc' = "sleep") =>
            /\ current_brightness = DevicePct
            /\ LastCmd'.cmd = "s"
            /\ target_brightness > current_brightness
                   => LastCmd'.arg = current_brightness + 1
            /\ target_brightness < current_brightness
                   => LastCmd'.arg = current_brightness - 1
            /\ Abs(LastCmd'.arg - current_brightness) = 1
            /\ Abs(target_brightness - LastCmd'.arg)
                   = Abs(target_brightness - current_brightness) - 1
      ]_vars

\* C3 witness: an adjustment from 20% toward 50% has set 21%.
C3_Witness ==
    /\ pc = "sleep" /\ adjusted
    /\ target_brightness = 50
    /\ cmds # <<>> /\ LastCmd = Cmd("s", 21)
    /\ rawCurrent = 42

\* C4: a call made with the device at target returns False and issues no set
\* command, and while the device is at target and the target stays the same
\* no step of the system changes the device.
C4_NoOpAtTarget ==
    [][ /\ (pc = "step_get" /\ pc' \notin {pc, "exited"}
                /\ DevicePct = target_brightness)
            => /\ pc' = "sleep"
               /\ adjusted' = FALSE
               /\ SetCmds(cmds') = {}
               /\ rawCurrent' = rawCurrent
        /\ (rawMax # 0 /\ tryResult = "ok" /\ DevicePct = target_brightness
                /\ target_brightness' = target_brightness)
            => rawCurrent' = rawCurrent
      ]_vars

\* C4 witness: a call at target (device at 50%, raw level not a whole
\* percentage's) has returned False without a set command.
C4_Witness ==
    /\ pc = "sleep" /\ ~adjusted /\ tryResult = "ok"
    /\ QueryCmds(cmds) # {} /\ SetCmds(cmds) = {}
    /\ rawCurrent = 100
    /\ target_brightness = 50

\* C5: an iteration whose sensor read fails (file missing, unreadable or not
\* an integer) goes straight to the long sleep with no brightnessctl command
\* and the device untouched, and after the sleep the loop is back at the
\* sensor read.
C5_FailedReadSkipsToLongSleep ==
    [][ /\ (pc = "sense" /\ sensor.kind # "int" /\ pc' # pc)
            => /\ pc' = "sleep"
               /\ sleep_duration' = "long"
               /\ cmds' = <<>>
               /\ rawCurrent' = rawCurrent
        /\ (pc = "sleep" /\ tryResult = "read_failed" /\ pc' # pc)
            => /\ pc' = "sense"
               /\ cmds' = <<>>
               /\ rawCurrent' = rawCurrent
      ]_vars

\* C5 witness: after a failed read and its long sleep the loop is at the
\* sensor read again, having issued no command.
C5_Witness ==
    /\ pc = "sense"
    /\ tryResult = "read_failed"
    /\ sleep_duration = "long"
    /\ cmds = <<>>

\* C6 (as stated): the process never exits because of a sensor error or a
\* brightness-device error.
C6_ProcessNeverExits == pc # "exited"

\* C7 (as stated): every iteration whose sensor read failed logged exactly one
\* warning line from read_ambient_light.
C7_EveryReadFailureWarned ==
    tryResult = "read_failed" => warnings = 1

\* C8: whenever the loop is about to sleep, the duration is the short one if
\* and only if this iteration issued a set command (adjust_brightness_step
\* made an adjustment); otherwise, and in particular when the try block
\* failed, it is the long one.
C8_ShortSleepIffAdjusted ==
    pc = "sleep" =>
        /\ sleep_duration \in {"short", "long"}
        /\ sleep_duration = "short" <=> SetCmds(cmds) # {}
        /\ tryResult # "ok" => sleep_duration = "long"

\* C8 witness: an iteration that adjusted the brightness is about to sleep
\* the short duration.
C8_Witness ==
    /\ pc = "sleep"
    /\ SetCmds(cmds) # {}
    /\ sleep_duration = "short"

\* The loop has settled: the last iteration computed the target, found the
\* device at it, issued no set command and chose the long sleep.
Settled ==
    /\ tryResult = "ok"
    /\ DevicePct = target_brightness
    /\ sleep_duration = "long"
    /\ SetCmds(cmds) = {}

\* The steady reading maps to a target the device can show.
SteadyTargetReachable ==
    /\ ~CalcRaises(sensor.val, max_lux)
    /\ calculate_target_brightness(sensor.val, max_lux, min_lux) \in 0..100

C10_FullBrightnessAtMaxLux ==
    (tryResult = "ok" /\ lux >= max_lux) => target_brightness = 100

\* C10 witness: with a floor of 150, a reading at or above max_lux was mapped
\* to 100.
C10_Witness ==
    /\ tryResult = "ok"
    /\ min_lux = 150
    /\ lux >= max_lux
    /\ target_brightness = 100

\* C11: a target computed from a reading lux in [0, max_lux), max_lux > 0, is
\* max(floor, q) where q is the floor of lux*100/max_lux, that is the integer
\* with q*max_lux <= lux*100 < (q+1)*max_lux.
C11_LinearScaling ==
    (tryResult = "ok" /\ max_lux > 0 /\ lux >= 0 /\ lux < max_lux) =>
        \E q \in 0..99 :
            /\ q * max_lux <= lux * 100
            /\ lux * 100 < (q + 1) * max_lux
            /\ target_brightness >= min_lux
            /\ target_brightness >= q
            /\ target_brightness \in {min_lux, q}

\* C11 witness: lux 200 of max_lux 300 (66.67%) with floor 1 was mapped to 66.
C11_Witness ==
    /\ tryResult = "ok"
    /\ max_lux = 300 /\ min_lux = 1
    /\ lux = 200
    /\ target_brightness = 66

\* C12: with a floor >= 1 every computed target is at least 1, whatever the
\* reading (zero and negative ones included), and no iteration issues a set
\* command for 0%.
C12_NeverFullyDark ==
    min_lux >= 1 =>
        /\ tryResult = "ok" => target_brightness >= 1
        /\ \A i \in SetCmds(cmds) : cmds[i].arg # 0

\* C12 witness: with floor 1 and a negative reading the loop came down from 2%
\* to the target 1%.
C12_Witness ==
    /\ min_lux = 1
    /\ tryResult = "ok" /\ lux = -150 /\ target_brightness = 1
    /\ pc = "sleep"
    /\ cmds # <<>> /\ LastCmd = Cmd("s", 1)
    /\ rawAtSense = 4

\* C13: every value get_brightness returns to the loop is the floor of
\* rawCurrent*100/rawMax (the integer p with p*rawMax <= rawCurrent*100 <
\* (p+1)*rawMax) and lies in [0,100].
C13_ReportedBrightness ==
    [][ (pc = "step_get" /\ pc' \in {"step_set", "sleep"}) =>
            /\ current_brightness' \in 0..100
            /\ current_brightness' * rawMax <= rawCurrent * 100
            /\ rawCurrent * 100 < (current_brightness' + 1) * rawMax
      ]_vars

\* C13 witness: a raw level of 41 of 200 (20.5%) was reported as 20.
C13_Witness ==
    /\ pc = "step_set"
    /\ rawCurrent = 41 /\ rawMax = 200
    /\ current_brightness = 20

\* The number of '#' characters of a bar.
Filled(bar) == Cardinality({ j \in 1..Len(bar) : bar[j] = "#" })

\* The bar of message m has floor(brightness*max_width/100) filled
\* characters, filled first, and max_width characters in all.
BarAsSpecified(m) ==
    /\ Filled(m.bar) * 100 <= m.brightness * max_width
    /\ m.brightness * max_width < (Filled(m.bar) + 1) * 100
    /\ \A j \in 1..Len(m.bar) : m.bar[j] = "#" <=> j <= Filled(m.bar)
    /\ Len(m.bar) = max_width

\* C14 (as stated): for every brightness level handed to update_display and
\* every bar width, the bar has floor(brightness*width/100) filled characters
\* and width characters in all.
C14_BarForEveryLevelAndWidth ==
    \A i \in 1..Len(display) : BarAsSpecified(display[i])

\* C14 (amended): for every brightness level in [0,100] handed to
\* update_display and every bar width >= 0, the bar has
\* floor(brightness*width/100) filled characters and width characters in all.
C14_BarForPercentagesAndWidths ==
    \A i \in 1..Len(display) :
        (display[i].brightness \in 0..100 /\ max_width >= 0)
            => BarAsSpecified(display[i])

\* C14 witness: width 25, brightness 80: 20 filled characters of 25.
C14_Witness ==
    /\ max_width = 25
    /\ Len(display) = 1
    /\ display[1].brightness = 80
    /\ Filled(display[1].bar) = 20
    /\ Len(display[1].bar) = 25

\* C15: whatever the readings do, an iteration issues at most one set command,
\* and the brightness the device reports differs by at most 1 from what it
\* reported when the iteration began.
C15_AtMostOneStepPerIteration ==
    /\ Cardinality(SetCmds(cmds)) <= 1
    /\ rawMax # 0 => Abs(DevicePct - get_brightness(rawAtSense, rawMax)) <= 1

\* C15 witness: an iteration that read -150 lux stepped the device down by one
\* while the sensor already reads 400 lux (the next target is the other way).
C15_Witness ==
    /\ pc = "sleep"
    /\ Cardinality(SetCmds(cmds)) = 1
    /\ lux = -150 /\ sensor = IntReading(400)
    /\ max_lux = 300 /\ min_lux = 1
    /\ DevicePct = get_brightness(rawAtSense, rawMax) - 1

\* C16 (as stated): the loop only moves Sensing -> Computing/Stepping ->
\* Sleeping -> Sensing, or Sensing -> Sleeping -> Sensing after a failed read;
\* it has no terminal state.
C16_LoopOrder ==
    [][ pc' # pc =>
            <<pc, pc'>> \in { <<"sense", "step_get">>, <<"sense", "sleep">>,
                              <<"step_get", "step_set">>, <<"step_get", "sleep">>,
                              <<"step_set", "sleep">>, <<"sleep", "sense">> }
      ]_vars

\* C18: with a floor in [0,100] and max_lux > 0, every percentage an iteration
\* passes to set_brightness is in [0,100], whatever the reading.
C18_SetCommandsInRange ==
    (min_lux \in 0..100 /\ max_lux > 0) =>
        \A i \in SetCmds(cmds) : cmds[i].arg \in 0..100

\* C18 witness: with floor 0 and a negative reading the loop set 0%.
C18_Witness ==
    /\ min_lux = 0 /\ max_lux = 300
    /\ lux = -150 /\ target_brightness = 0
    /\ cmds # <<>> /\ LastCmd = Cmd("s", 0)
    /\ current_brightness \in 0..100

----------------------------------------------------------------------------
(* The program with a steady sensor, a working device and an external      *)
(* actor that writes the device a finite number of times, at any point of  *)
(* the loop (between get_brightness and set_brightness included).          *)

ExternalInit ==
    /\ InitProg
    /\ sensor.kind = "int"
    /\ rawMax # 0
    /\ max_width = 25
    /\ startBrightness = 0
    /\ calls = 0
    /\ InitExternal

\* Something else (a hotkey, another brightnessctl) sets the brightness.
ExternalWrite ==
    /\ pc # "exited"
    /\ extWrites < MaxExternalWrites
    /\ \E r \in ExternalLevels \ {rawCurrent} : rawCurrent' = r
    /\ extWrites' = extWrites + 1
    /\ disturbed' = (disturbed \/ Settled)
    /\ UNCHANGED <<max_lux, min_lux, max_width, sensor, rawMax, pc, lux,
                   target_brightness, tryResult, current_brightness, adjusted,
                   sleep_duration, warnings, cmds, display, rawAtSense, exc>>
    /\ UNCHANGED <<startBrightness, calls, movedBy>>

\* The steps of the loop, recording what each set command did to the device.
ExternalLoop ==
    \/ SenseCalcFails /\ movedBy' = 0
           /\ UNCHANGED <<startBrightness, calls, extWrites, disturbed>>
    \/ SenseOk /\ movedBy' = 0
           /\ UNCHANGED <<startBrightness, calls, extWrites, disturbed>>
    \/ StepGetAtTarget /\ UNCHANGED hist
    \/ StepGetOffTarget /\ UNCHANGED hist
    \/ StepSet /\ movedBy' = Abs(DevicePct' - DevicePct)
           /\ UNCHANGED <<startBrightness, calls, extWrites, disturbed>>
    \/ Sleeping /\ UNCHANGED hist

ExternalNext == ExternalLoop \/ ExternalWrite

\* The loop always takes its next step; the external actor may stop at any time.
ExternalSpec == ExternalInit /\ [][ExternalNext]_vars /\ WF_vars(ExternalLoop)

\* C17: a set command carries the value computed from the brightness read
\* earlier in the step, plus or minus 1, and the device then shows that value
\* whatever it held after an external write; such a step can move the device
\* by more than 1 (the witness).
C17_StaleWriteOverwrites ==
    [][ (pc = "step_set" /\ pc' = "sleep") =>
            /\ LastCmd'.cmd = "s"
            /\ LastCmd'.arg = current_brightness
                   + (IF target_brightness > current_brightness THEN 1 ELSE -1)
            /\ LastCmd'.arg \in 0..100 => DevicePct' = LastCmd'.arg
      ]_vars

\* C17 witness: the step read 20%, an external actor then set 60%, and the
\* step wrote 21%: the device moved by 39 points in one step.
C17_Witness ==
    /\ pc = "sleep" /\ adjusted
    /\ extWrites >= 1
    /\ target_brightness = 50
    /\ cmds # <<>> /\ LastCmd = Cmd("s", 21)
    /\ rawCurrent = 42
    /\ movedBy = 39

====
